---- MODULE Spec2Model ----
(***************************************************************************)
(* Announcements router of the High School Management System API           *)
(* (src/src/backend/routers/announcements.py): the four FastAPI handlers   *)
(* over the announcements collection and the teachers collection.          *)
(*                                                                         *)
(* Timestamps are naive datetimes, modelled as integers on the clock       *)
(* `now` (what datetime.now() returns).  Python's None is <<>>, a present  *)
(* optional value x is <<x>>.                                              *)
(***************************************************************************)
EXTENDS Integers, Sequences, FiniteSets, TLC

\* ------------------------------------------------------------------ bounds
MaxTime == 2
MaxRequests == 3
\* the most fields a generated patch provides
MaxPatchFields == 2

\* ------------------------------------------------------- values and inputs
None == <<>>
Some(x) == <<x>>
Val(o) == o[1]

Dates == 1 .. (MaxTime + 1)
OptDates == {None} \cup {Some(d) : d \in Dates}

\* documents of teachers_collection, keyed by _id
Teachers == {"teacher"}
Usernames == {"teacher", "ghost"}
\* teacher_username of get_announcements is Optional and may be empty
ListUsernames == {None, Some(""), Some("ghost"), Some("teacher")}

CreateTitles == {"a"}
CreateMessages == {"m"}
PatchTitles == {None, Some("b")}
PatchMessages == {None, Some("n")}

\* bool(x) of an Optional[datetime] or a find_one result: None is falsy,
\* a datetime and a document (it has an _id) are truthy
Truthy(o) == o # None
\* bool(x) of an Optional[str]: None and "" are falsy
TruthyStr(o) == o # None /\ Val(o) # ""

\* ---------------------------------------------------------------- ObjectId
\* an id string is either the 24-hex form of an ObjectId or anything else
IdStr(n) == [hex |-> TRUE, n |-> n]
MalformedId == [hex |-> FALSE, n |-> 0]
\* bson.ObjectId(s) raises InvalidId unless s is a 24-hex string
ObjectIdRaises(s) == ~s.hex
ObjectId(s) == s.n
\* str(ObjectId)
StrOfObjectId(oid) == IdStr(oid)

\* datetime.isoformat()
isoformat(d) == [iso |-> d]

\* -------------------------------------------------------------- the models
AnnouncementCreate ==
    [title : CreateTitles, message : CreateMessages, start_date : OptDates,
     expiration_date : Dates, is_active : BOOLEAN]

PatchFields == {"title", "message", "start_date", "expiration_date", "is_active"}

AnnouncementUpdate ==
    {a \in [title : PatchTitles, message : PatchMessages, start_date : OptDates,
            expiration_date : OptDates, is_active : {None, Some(TRUE), Some(FALSE)}] :
        Cardinality({f \in PatchFields : a[f] # None}) <= MaxPatchFields}

NoBody == [none |-> TRUE]

\* ---------------------------------------------------------------- requests
ListRequests ==
    [op : {"list"}, active_only : BOOLEAN, user : ListUsernames,
     id : {MalformedId}, body : {NoBody}]

CreateRequests ==
    [op : {"create"}, active_only : {FALSE}, user : {Some(u) : u \in Usernames},
     id : {MalformedId}, body : AnnouncementCreate]

IdInputs(next) == {IdStr(n) : n \in 1 .. next} \cup {MalformedId}

UpdateRequests(next) ==
    [op : {"update"}, active_only : {FALSE}, user : {Some(u) : u \in Usernames},
     id : IdInputs(next), body : AnnouncementUpdate]

DeleteRequests(next) ==
    [op : {"delete"}, active_only : {FALSE}, user : {Some(u) : u \in Usernames},
     id : IdInputs(next), body : {NoBody}]

NoReq == [op |-> "none", active_only |-> FALSE, user |-> None, id |-> MalformedId,
          body |-> NoBody]

\* --------------------------------------------------------------- responses
NoOut == << >>
Response(status, detail, out) == [status |-> status, detail |-> detail, out |-> out]
NoResp == Response(0, "", NoOut)
HTTPException(status, detail) == Response(status, detail, NoOut)

Idle == [stage |-> "idle", req |-> NoReq, resp |-> NoResp]
Responded(r, resp) == [stage |-> "responded", req |-> r, resp |-> resp]

Workers == {1, 2}

VARIABLES
    store,      \* announcements_collection: ObjectId -> document
    nextId,     \* the next ObjectId the store generates
    now,        \* the wall clock read by datetime.now()
    inbox,      \* the request just answered and its response
    pending,    \* per worker: an update_announcement call between its
                \* validation and its update_one
    issued      \* requests received so far

vars == <<store, nextId, now, inbox, pending, issued>>

\* ------------------------------------------------------ teachers_collection
\* teachers_collection.find_one({"_id": username})
TeacherFindOne(username) ==
    IF username \in Teachers THEN Some([_id |-> username]) ELSE None

\* mutant: the username is only required to be non-empty, not looked up
NotTeacher_NonEmpty(user) == ~TruthyStr(user)

\* `teacher = find_one(...); if not teacher: raise 401`
NotTeacher(user) == ~Truthy(TeacherFindOne(Val(user)))

\* -------------------------------------------------- announcements_collection
FindOne(s, oid) == IF oid \in DOMAIN s THEN Some(s[oid]) ELSE None

InsertOne(s, oid, doc) ==
    [i \in DOMAIN s \cup {oid} |-> IF i = oid THEN doc ELSE s[i]]

\* {"$set": update_doc} on one document
SetFields(doc, update_doc) ==
    [f \in DOMAIN doc |-> IF f \in DOMAIN update_doc THEN update_doc[f] ELSE doc[f]]

\* mutant: the count of matched documents is reported as modified_count
UpdateOne_Matched(s, oid, update_doc) ==
    IF oid \in DOMAIN s
    THEN [store |-> [s EXCEPT ![oid] = SetFields(s[oid], update_doc)],
          modified_count |-> 1]
    ELSE [store |-> s, modified_count |-> 0]

\* update_one({"_id": oid}, {"$set": update_doc}): modified_count counts
\* the documents the update actually changed
UpdateOne(s, oid, update_doc) ==
    IF oid \in DOMAIN s
    THEN LET new == SetFields(s[oid], update_doc)
         IN [store |-> [s EXCEPT ![oid] = new],
             modified_count |-> IF new = s[oid] THEN 0 ELSE 1]
    ELSE [store |-> s, modified_count |-> 0]

\* mutant: deleted_count is 1 whether or not a document matched
DeleteOne_Always(s, oid) ==
    [store |-> [i \in DOMAIN s \ {oid} |-> s[i]], deleted_count |-> 1]

\* delete_one({"_id": oid})
DeleteOne(s, oid) ==
    IF oid \in DOMAIN s
    THEN [store |-> [i \in DOMAIN s \ {oid} |-> s[i]], deleted_count |-> 1]
    ELSE [store |-> s, deleted_count |-> 0]

\* mutant: $gt where the query has $gte
ActiveQuery_Gt(doc, current_time) ==
    /\ doc.is_active = TRUE
    /\ doc.expiration_date # None /\ Val(doc.expiration_date) > current_time
    /\ \/ doc.start_date # None /\ Val(doc.start_date) <= current_time
       \/ doc.start_date = None

\* the query of get_announcements on one document at current_time
ActiveQuery(doc, current_time) ==
    /\ doc.is_active = TRUE
    /\ doc.expiration_date # None /\ Val(doc.expiration_date) >= current_time
    /\ \/ doc.start_date # None /\ Val(doc.start_date) <= current_time
       \/ doc.start_date = None

Matches(doc, active_only, current_time) ==
    IF active_only THEN ActiveQuery(doc, current_time) ELSE TRUE

\* find(query).sort("created_at", -1): the orders the sort may produce
\* (documents with equal created_at come in any order)
SortedFind(s, active_only, current_time) ==
    LET hit == {i \in DOMAIN s : Matches(s[i], active_only, current_time)}
    IN {q \in [1 .. Cardinality(hit) -> hit] :
          /\ \A a, b \in DOMAIN q : a # b => q[a] # q[b]
          /\ \A a, b \in DOMAIN q :
                a < b => Val(s[q[a]].created_at) >= Val(s[q[b]].created_at)}

\* the loop body of get_announcements: _id popped into "id", dates to ISO
DateOut(o) == IF Truthy(o) THEN Some(isoformat(Val(o))) ELSE o

Serialize(oid, doc) ==
    [id |-> StrOfObjectId(oid), title |-> doc.title, message |-> doc.message,
     start_date |-> DateOut(doc.start_date),
     expiration_date |-> DateOut(doc.expiration_date),
     created_by |-> doc.created_by, created_at |-> DateOut(doc.created_at),
     is_active |-> doc.is_active]

\* ------------------------------------------------------------------- Init
Init ==
    /\ store = << >>
    /\ nextId = 1
    /\ now = 0
    /\ inbox = Idle
    /\ pending = [w \in Workers |-> None]
    /\ issued = 0

\* the clock advances
Tick ==
    /\ now < MaxTime
    /\ now' = now + 1
    /\ UNCHANGED <<store, nextId, inbox, pending, issued>>

\* a handler may start: no response is being sent and requests remain
CanStart == inbox.stage = "idle" /\ issued < MaxRequests

\* the response has been sent
Reply ==
    /\ inbox.stage = "responded"
    /\ inbox' = Idle
    /\ UNCHANGED <<store, nextId, now, pending, issued>>

\* ------------------------------------------------------- get_announcements
ListNeedsAuth(active_only, teacher_username) ==
    ~active_only /\ TruthyStr(teacher_username)

get_announcements ==
    /\ CanStart
    /\ \E r \in ListRequests :
       LET current_time == now
       IN IF ListNeedsAuth(r.active_only, r.user) /\ NotTeacher(r.user)
          THEN inbox' = Responded(r, HTTPException(401,
                            "Authentication required for management access"))
          ELSE \E q \in SortedFind(store, r.active_only, current_time) :
                  inbox' = Responded(r, Response(200, "",
                              [k \in DOMAIN q |-> Serialize(q[k], store[q[k]])]))
    /\ issued' = issued + 1
    /\ UNCHANGED <<store, nextId, now, pending>>

\* ------------------------------------------------------ create_announcement
\* mutant: < where line 94 has <=
CreateExpired_Lt(announcement, t) == announcement.expiration_date < t

CreateExpired(announcement, t) == announcement.expiration_date <= t

CreateStartNotBefore(announcement) ==
    /\ Truthy(announcement.start_date)
    /\ Val(announcement.start_date) >= announcement.expiration_date

AnnouncementDoc(announcement, teacher_username, t) ==
    [title |-> announcement.title,
     message |-> announcement.message,
     start_date |-> announcement.start_date,
     expiration_date |-> Some(announcement.expiration_date),
     created_by |-> teacher_username,
     created_at |-> Some(t),
     is_active |-> announcement.is_active]

create_announcement ==
    /\ CanStart
    /\ \E r \in CreateRequests :
       LET a == r.body
       IN IF NotTeacher(r.user)
          THEN /\ inbox' = Responded(r, HTTPException(401,
                              "Authentication required for this action"))
               /\ UNCHANGED <<store, nextId>>
          ELSE IF CreateExpired(a, now)
          THEN /\ inbox' = Responded(r, HTTPException(400,
                              "Expiration date must be in the future"))
               /\ UNCHANGED <<store, nextId>>
          ELSE IF CreateStartNotBefore(a)
          THEN /\ inbox' = Responded(r, HTTPException(400,
                              "Start date must be before expiration date"))
               /\ UNCHANGED <<store, nextId>>
          ELSE /\ store' = InsertOne(store, nextId, AnnouncementDoc(a, Val(r.user), now))
               /\ nextId' = nextId + 1
               /\ inbox' = Responded(r, Response(200, "created",
                              <<StrOfObjectId(nextId)>>))
    /\ issued' = issued + 1
    /\ UNCHANGED <<now, pending>>

\* ------------------------------------------------------ update_announcement
DateFields == {"start_date", "expiration_date"}

\* mutant: `if announcement.is_active:` where line 157 has `is not None`
UpdateDoc_Truthy(announcement) ==
    [f \in {g \in PatchFields : /\ announcement[g] # None
                                /\ (g = "is_active" => Val(announcement[g]))} |->
        IF f \in DateFields THEN announcement[f] ELSE Val(announcement[f])]

\* update_doc: only the provided fields
UpdateDoc(announcement) ==
    [f \in {g \in PatchFields : announcement[g] # None} |->
        IF f \in DateFields THEN announcement[f] ELSE Val(announcement[f])]

FinalExpiration(announcement, existing) ==
    IF announcement.expiration_date # None
    THEN announcement.expiration_date ELSE existing.expiration_date

FinalStart(announcement, existing) ==
    IF announcement.start_date # None
    THEN announcement.start_date ELSE existing.start_date

\* mutant: the expiration date is validated only when the patch provides it
UpdateExpired_IfProvided(announcement, existing, t) ==
    /\ announcement.expiration_date # None
    /\ Val(announcement.expiration_date) <= t

UpdateExpired(announcement, existing, t) ==
    LET final_expiration == FinalExpiration(announcement, existing)
    IN Truthy(final_expiration) /\ Val(final_expiration) <= t

UpdateStartNotBefore(announcement, existing) ==
    LET final_expiration == FinalExpiration(announcement, existing)
        final_start == FinalStart(announcement, existing)
    IN Truthy(final_start) /\ Val(final_start) >= Val(final_expiration)

\* the response of lines 131-174, or NoResp when the call goes on to update_one
UpdateCheck(s, r, t) ==
    IF NotTeacher(r.user)
    THEN HTTPException(401, "Authentication required for this action")
    ELSE IF ObjectIdRaises(r.id)
    THEN HTTPException(400, "Invalid announcement ID")
    ELSE IF ~Truthy(FindOne(s, ObjectId(r.id)))
    THEN HTTPException(404, "Announcement not found")
    ELSE LET existing == Val(FindOne(s, ObjectId(r.id)))
         IN IF UpdateExpired(r.body, existing, t)
            THEN HTTPException(400, "Expiration date must be in the future")
            ELSE IF UpdateStartNotBefore(r.body, existing)
            THEN HTTPException(400, "Start date must be before expiration date")
            ELSE IF DOMAIN UpdateDoc(r.body) = {}
            THEN HTTPException(400, "No fields provided for update")
            ELSE NoResp

FreeWorker == CHOOSE w \in Workers : pending[w] = None /\ \A v \in Workers : pending[v] = None => w <= v

\* lines 131-174: authentication, find_one, update_doc, validation
update_announcement ==
    /\ CanStart
    /\ \E w \in Workers : pending[w] = None
    /\ \E r \in UpdateRequests(nextId) :
       LET resp == UpdateCheck(store, r, now)
       IN IF resp # NoResp
          THEN /\ inbox' = Responded(r, resp)
               /\ UNCHANGED pending
          ELSE /\ inbox' = Idle
               /\ pending' = [pending EXCEPT ![FreeWorker] = Some(r)]
    /\ issued' = issued + 1
    /\ UNCHANGED <<store, nextId, now>>

\* lines 176-186: update_one and the check of modified_count
UpdateResult(modified_count) ==
    IF modified_count = 0
    THEN HTTPException(500, "Failed to update announcement")
    ELSE Response(200, "Announcement updated successfully", NoOut)

update_one(w) ==
    /\ inbox.stage = "idle"
    /\ pending[w] # None
    /\ LET r == Val(pending[w])
           result == UpdateOne(store, ObjectId(r.id), UpdateDoc(r.body))
       IN /\ store' = result.store
          /\ inbox' = Responded(r, UpdateResult(result.modified_count))
    /\ pending' = [pending EXCEPT ![w] = None]
    /\ UNCHANGED <<nextId, now, issued>>

\* ------------------------------------------------------ delete_announcement
delete_announcement ==
    /\ CanStart
    /\ \E r \in DeleteRequests(nextId) :
       IF NotTeacher(r.user)
          THEN /\ inbox' = Responded(r, HTTPException(401,
                              "Authentication required for this action"))
               /\ UNCHANGED store
          ELSE IF ObjectIdRaises(r.id)
          THEN /\ inbox' = Responded(r, HTTPException(400, "Invalid announcement ID"))
               /\ UNCHANGED store
          ELSE LET result == DeleteOne(store, ObjectId(r.id))
               IN /\ store' = result.store
                  /\ inbox' = Responded(r,
                        IF result.deleted_count = 0
                        THEN HTTPException(404, "Announcement not found")
                        ELSE Response(200, "Announcement deleted successfully", NoOut))
    /\ issued' = issued + 1
    /\ UNCHANGED <<nextId, now, pending>>

Next ==
    \/ Tick
    \/ Reply
    \/ get_announcements
    \/ create_announcement
    \/ update_announcement
    \/ \E w \in Workers : update_one(w)
    \/ delete_announcement

Spec == Init /\ [][Next]_vars

\* ================================================================ the claims
\* a handler started in this step (and, update_announcement apart when it
\* goes on to update_one, answered in it)
Started == issued' = issued + 1
Answered(op) == Started /\ inbox'.stage = "responded" /\ inbox'.req.op = op
\* worker w took up a validated update in this step
TookUp(w) == pending[w] = None /\ pending'[w] # None
\* worker w performed its update_one in this step
Wrote(w) == pending[w] # None /\ pending'[w] = None
IsTeacher(user) == user # None /\ Val(user) \in Teachers
OutIds(out) == {out[k].id : k \in DOMAIN out}
SameExcept(s, t, oid) == \A i \in DOMAIN s \ {oid} : i \in DOMAIN t /\ t[i] = s[i]
\* the value a patch provides for field f, as the document holds it
PatchValue(body, f) == IF f \in {"start_date", "expiration_date"} THEN body[f] ELSE Val(body[f])

\* ---- C1
CurrentlyActive(doc, t) ==
    /\ doc.is_active
    /\ Val(doc.expiration_date) >= t
    /\ (doc.start_date = None \/ Val(doc.start_date) <= t)

\* C1: List(active_only=true) answers 200 for every requester and returns
\* exactly the stored announcements that are currently active at `now`:
\* is_active, expiration_date >= now, start_date absent or <= now.
C1_ActiveListExact ==
    [][Answered("list") /\ inbox'.req.active_only =>
         LET out == inbox'.resp.out
             active == {i \in DOMAIN store : CurrentlyActive(store[i], now)}
         IN /\ inbox'.resp.status = 200
            /\ OutIds(out) = {StrOfObjectId(i) : i \in active}
            /\ Len(out) = Cardinality(active)
            /\ store' = store]_vars

\* an unauthenticated active-only List that returned one announcement and
\* left another one out
C1_Witness ==
    /\ inbox.stage = "responded" /\ inbox.req.op = "list" /\ inbox.req.active_only
    /\ inbox.req.user = Some("ghost")
    /\ Len(inbox.resp.out) = 1
    /\ Cardinality(DOMAIN store) = 2

\* ---- C2
CreateAcceptable(a, t) ==
    /\ a.expiration_date > t
    /\ (a.start_date = None \/ Val(a.start_date) < a.expiration_date)

\* C2: Create by an existing teacher succeeds and inserts exactly one new
\* record iff expiration_date > now and start_date is absent or before
\* expiration_date; otherwise it answers 400 and inserts nothing.
C2_CreateValidation ==
    [][Answered("create") /\ IsTeacher(inbox'.req.user) =>
         LET a == inbox'.req.body
         IN IF CreateAcceptable(a, now)
            THEN /\ inbox'.resp.status = 200
                 /\ \E oid \in DOMAIN store' \ DOMAIN store :
                       /\ DOMAIN store' = DOMAIN store \cup {oid}
                       /\ SameExcept(store, store', oid)
                       /\ store'[oid].start_date = a.start_date
                       /\ store'[oid].expiration_date = Some(a.expiration_date)
                       /\ store'[oid].created_by = Val(inbox'.req.user)
                       /\ store'[oid].is_active = a.is_active
            ELSE /\ inbox'.resp.status = 400
                 /\ store' = store]_vars

\* a Create with a start_date that succeeded
C2_Witness ==
    /\ inbox.stage = "responded" /\ inbox.req.op = "create"
    /\ inbox.resp.status = 200
    /\ inbox.req.body.start_date # None
    /\ ObjectId(inbox.resp.out[1]) \in DOMAIN store

\* ---- C3
\* C3: Create, Update and Delete by a requester who is no teacher answer 401
\* whatever the other arguments are, and leave the collection unchanged; no
\* such Update ever reaches update_one.
C3_Unauthorized ==
    [][/\ \A op \in {"create", "update", "delete"} :
            Answered(op) /\ ~IsTeacher(inbox'.req.user) =>
               inbox'.resp.status = 401 /\ store' = store
       /\ \A w \in Workers : TookUp(w) => IsTeacher(Val(pending'[w]).user)]_vars

\* an Update by a non-teacher with a malformed id rejected with 401
C3_Witness ==
    /\ inbox.stage = "responded" /\ inbox.req.op = "update"
    /\ inbox.req.user = Some("ghost")
    /\ inbox.req.id = MalformedId
    /\ inbox.resp.status = 401

\* ---- C4
EffectiveDatesBad(body, stored, t) ==
    LET e == IF body.expiration_date # None
             THEN Val(body.expiration_date) ELSE Val(stored.expiration_date)
        s == IF body.start_date # None THEN body.start_date ELSE stored.start_date
    IN e <= t \/ (s # None /\ Val(s) >= e)

Addresses(r, s) == r.id.hex /\ r.id.n \in DOMAIN s

EmptyPatch(body) == \A f \in PatchFields : body[f] = None

\* C5: Update by a teacher on an existing announcement with an empty patch
\* always answers 400 "No fields provided for update", whatever the stored
\* record is, and leaves it unchanged.
C5_EmptyPatchError ==
    [][(/\ Answered("update") /\ IsTeacher(inbox'.req.user)
        /\ Addresses(inbox'.req, store)
        /\ EmptyPatch(inbox'.req.body))
       => /\ inbox'.resp.status = 400
          /\ inbox'.resp.detail = "No fields provided for update"
          /\ store' = store]_vars

\* ---- C6
\* C6: in every reachable state every stored announcement with a start_date
\* has start_date < expiration_date.
C6_StartBeforeExpiration ==
    \A i \in DOMAIN store :
        store[i].start_date # None =>
            Val(store[i].start_date) < Val(store[i].expiration_date)

\* ---- C7
\* C7: a successful Update sets exactly the fields its patch provides to the
\* patch values, keeps every other field (created_by and created_at among
\* them) and every other announcement; an Update that fails changes nothing.
C7_UpdateFrame ==
    [][/\ \A w \in Workers : Wrote(w) /\ inbox'.resp.status = 200 =>
             LET r == Val(pending[w])
                 oid == ObjectId(r.id)
             IN /\ oid \in DOMAIN store /\ DOMAIN store' = DOMAIN store
                /\ SameExcept(store, store', oid)
                /\ \A f \in PatchFields :
                      store'[oid][f] = IF r.body[f] # None
                                       THEN PatchValue(r.body, f) ELSE store[oid][f]
                /\ store'[oid].created_by = store[oid].created_by
                /\ store'[oid].created_at = store[oid].created_at
       /\ (inbox'.stage = "responded" /\ inbox' # inbox /\ inbox'.req.op = "update"
           /\ inbox'.resp.status # 200) => store' = store]_vars

\* a successful Update of is_active and title only, on a record that keeps
\* its start_date
C7_Witness ==
    /\ inbox.stage = "responded" /\ inbox.req.op = "update"
    /\ inbox.resp.status = 200
    /\ inbox.req.body.is_active = Some(FALSE) /\ inbox.req.body.title = Some("b")
    /\ Addresses(inbox.req, store)
    /\ store[inbox.req.id.n].title = "b" /\ ~store[inbox.req.id.n].is_active
    /\ store[inbox.req.id.n].start_date # None

\* ---- C8
\* C8: Delete by a teacher answers 400 for a malformed id and 404 for a
\* well-formed id that matches nothing, both without changing the store;
\* for an existing id it removes exactly that record, and an id once
\* removed never comes back (a second Delete finds nothing).
C8_Delete ==
    [][/\ Answered("delete") /\ IsTeacher(inbox'.req.user) =>
             LET id == inbox'.req.id
             IN IF ~id.hex
                THEN inbox'.resp.status = 400 /\ store' = store
                ELSE IF id.n \notin DOMAIN store
                THEN inbox'.resp.status = 404 /\ store' = store
                ELSE /\ inbox'.resp.status = 200
                     /\ DOMAIN store' = DOMAIN store \ {id.n}
                     /\ SameExcept(store, store', id.n)
       /\ \A n \in 1 .. (nextId - 1) : n \notin DOMAIN store => n \notin DOMAIN store']_vars

\* a second Delete of an id that was created and deleted: 404
C8_Witness ==
    /\ inbox.stage = "responded" /\ inbox.req.op = "delete"
    /\ inbox.resp.status = 404
    /\ inbox.req.id.hex /\ inbox.req.id.n < nextId

\* ---- C9
PatchIsNoOp(r, s) ==
    \/ ObjectId(r.id) \notin DOMAIN s
    \/ \A f \in PatchFields :
          r.body[f] # None => s[ObjectId(r.id)][f] = PatchValue(r.body, f)

\* C9: the update_one of a validated Update that modifies nothing (the
\* record already holds every patch value, or is gone) answers 500;
\* otherwise it answers 200 and leaves the record holding every patch value,
\* so that the same patch applied again modifies nothing and answers 500.
C9_ZeroModifiedIsError ==
    [][\A w \in Workers : Wrote(w) =>
          LET r == Val(pending[w])
          IN /\ inbox'.stage = "responded" /\ inbox'.req = r
             /\ IF PatchIsNoOp(r, store)
                THEN inbox'.resp.status = 500 /\ store' = store
                ELSE inbox'.resp.status = 200 /\ PatchIsNoOp(r, store')]_vars

\* the title patch "b" applied to a record that an earlier Update already
\* gave the title "b": 500
C9_Witness ==
    /\ inbox.stage = "responded" /\ inbox.req.op = "update"
    /\ inbox.resp.status = 500
    /\ EmptyPatch([inbox.req.body EXCEPT !.title = None])
    /\ inbox.req.body.title = Some("b")
    /\ Addresses(inbox.req, store)
    /\ store[inbox.req.id.n].title = "b"

\* ---- C10
SortedByCreatedAtDesc(out) ==
    \A a, b \in DOMAIN out :
        a < b => Val(out[a].created_at).iso >= Val(out[b].created_at).iso

\* C10: List(active_only=false) answers 401 with no announcements when a
\* requester_username is provided that is no teacher; for a teacher or an
\* absent username it returns every stored announcement, newest first; the
\* store is never modified.
C10_ManagementList ==
    [][Answered("list") /\ ~inbox'.req.active_only =>
         LET user == inbox'.req.user
             out == inbox'.resp.out
         IN /\ store' = store
            /\ IF user # None /\ ~IsTeacher(user)
               THEN inbox'.resp.status = 401 /\ out = NoOut
               ELSE /\ inbox'.resp.status = 200
                    /\ OutIds(out) = {StrOfObjectId(i) : i \in DOMAIN store}
                    /\ Len(out) = Cardinality(DOMAIN store)
                    /\ SortedByCreatedAtDesc(out)]_vars

====
